---- MODULE Spec2Model ----
(***************************************************************************)
(* Model of src/zad2/convexHull.cpp: the driver main() and the recursive   *)
(* procedure quickHull() with its helpers distance() and                   *)
(* findMaxDistancePoint().                                                 *)
(*                                                                         *)
(* Coordinates are doubles in the source.  Here they are integers counted  *)
(* in half-units (2 stands for 1.0, 1 for 0.5); quickHull only compares    *)
(* x-coordinates, which is invariant under that scaling.                   *)
(*                                                                         *)
(* The point buffer is a function over 0..size-1, as in the source.  Each  *)
(* point carries a history field `slot`, the index at which main() stored  *)
(* it; the algorithm never reads it.                                       *)
(*                                                                         *)
(* The recursion is run with an explicit stack of pending calls; the head  *)
(* is the call about to execute.  One action executes the body of one call *)
(* (lines 59-93 without the two nested calls, which it pushes).            *)
(***************************************************************************)
EXTENDS Integers, Sequences, FiniteSets

VARIABLES n, input, points, convexHull, stack, pc, output, call

vars == <<n, input, points, convexHull, stack, pc, output, call>>

\* ---------------------------------------------------------------- bounds
MaxN == 3
MaxX == 1
MaxY == 2
MinN == -1

XCoord == 0..MaxX

YCoord == 0..MaxY

\* ------------------------------------------------------- data (lines 11-13)
Point(px, py, s) == [x |-> px, y |-> py, slot |-> s]

Size(pts) == Cardinality(DOMAIN pts)

\* a buffer as main() builds it from the coordinates read (lines 107-114)
MakeBuffer(k, xs, ys) == [i \in 0..(k - 1) |-> Point(xs[i], ys[i], i)]

\* spec scenarios, in half-units: the unit square, and the square with centroid
UnitSquare == MakeBuffer(4, [i \in 0..3 |-> <<0, 0, 2, 2>>[i + 1]], [i \in 0..3 |-> <<0, 2, 2, 0>>[i + 1]])

SquareWithCentroid == MakeBuffer(5, [i \in 0..4 |-> <<0, 0, 2, 2, 1>>[i + 1]], [i \in 0..4 |-> <<0, 2, 2, 0, 1>>[i + 1]])

Scenarios == {UnitSquare, SquareWithCentroid}

SmallBuffers == UNION {{MakeBuffer(k, xs, ys) : xs \in [0..(k - 1) -> XCoord], ys \in [0..(k - 1) -> YCoord]} : k \in 0..MaxN}

Inputs == SmallBuffers \cup Scenarios

\* the inputs that differ in x only (every point on the x-axis), and the scenarios
AxisBuffers == UNION {{MakeBuffer(k, xs, [i \in 0..(k - 1) |-> 0]) : xs \in [0..(k - 1) -> XCoord]} : k \in 0..MaxN}

AxisInputs == AxisBuffers \cup Scenarios

\* ------------------------------------------------ distance (lines 23-25)
Abs(v) == IF v < 0 THEN -v ELSE v

\* numerator of line 24
distanceNum(a, b, p) == Abs((b.x - a.x) * (a.y - p.y) - (a.x - p.x) * (b.y - a.y))

\* square of the denominator of line 24
distanceDen2(a, b) == (b.x - a.x) * (b.x - a.x) + (b.y - a.y) * (b.y - a.y)

\* line 24 divides by sqrt(distanceDen2); with a zero denominator the quotient
\* is not a defined distance
distanceUndefined(a, b) == distanceDen2(a, b) = 0

\* ------------------------------------ findMaxDistancePoint (lines 35-48)
\* The loop of lines 39-45 for a segment of non-zero length: all quotients
\* share one positive denominator, so dist > maxDist compares numerators
\* (maxDist = -1 initially, below every numerator).
RECURSIVE findMaxLoop(_, _, _, _, _, _)
findMaxLoop(pts, a, b, i, maxNum, maxPointIndex) ==
    IF i >= Size(pts) THEN maxPointIndex
    ELSE IF distanceNum(pts[a], pts[b], pts[i]) > maxNum
         THEN findMaxLoop(pts, a, b, i + 1, distanceNum(pts[a], pts[b], pts[i]), i)
         ELSE findMaxLoop(pts, a, b, i + 1, maxNum, maxPointIndex)

\* The indices the call can return.  With a zero-length segment every
\* quotient of line 24 is 0/0: the comparison of line 41 is then whatever
\* the build makes of it, so any index scanned, or the initial -1, can result.
findMaxDistancePoint(pts, a, b) ==
    IF distanceUndefined(pts[a], pts[b])
    THEN (-1)..(Size(pts) - 1)
    ELSE {findMaxLoop(pts, a, b, 0, -1, -1)}

\* buffer positions read by findMaxDistancePoint: points[a], points[b] and
\* points[i] for every i of the loop of line 39
findMaxReads(pts, a, b) == {a, b} \cup (0..(Size(pts) - 1))

\* ----------------------------------------------- quickHull (lines 58-94)
\* line 59
BaseCaseStrict(pts, left, right) == Size(pts) = 0 \/ left > right

BaseCase(pts, left, right) == Size(pts) = 0 \/ left >= right

\* std::swap of two buffer elements
Swap(pts, i, j) == [pts EXCEPT ![i] = pts[j], ![j] = pts[i]]

\* line 66
IsLowerXOrEqual(p, q) == p.x <= q.x

IsLowerX(p, q) == p.x < q.x

\* lines 64-69
RECURSIVE FindReferentialFrom(_, _, _, _)
FindReferentialFrom(pts, i, right, referentialIndex) ==
    IF i > right THEN referentialIndex
    ELSE FindReferentialFrom(pts, i + 1, right,
            IF IsLowerX(pts[i], pts[referentialIndex]) THEN i ELSE referentialIndex)

FindReferential(pts, left, right) == FindReferentialFrom(pts, left, right, left)

\* line 76
BelongsLeftOrEqual(p, pivot) == p.x <= pivot.x

BelongsLeft(p, pivot) == p.x < pivot.x

\* lines 73-80; `writes` collects the positions swapped
RECURSIVE PartitionFrom(_, _, _, _, _)
PartitionFrom(pts, i, right, splitIndex, writes) ==
    IF i >= right THEN [points |-> pts, splitIndex |-> splitIndex, writes |-> writes]
    ELSE IF BelongsLeft(pts[i], pts[right])
         THEN PartitionFrom(Swap(pts, i, splitIndex), i + 1, right, splitIndex + 1, writes \cup {i, splitIndex})
         ELSE PartitionFrom(pts, i + 1, right, splitIndex, writes)

Partition(pts, left, right) == PartitionFrom(pts, left, right, left, {})

\* line 86: the point pushed onto convexHull
EmittedPointAtRight(pts, splitIndex, right) == pts[right]

EmittedPoint(pts, splitIndex, right) == pts[splitIndex]

\* line 92
LeftSubrange(left, splitIndex) == [left |-> left, right |-> splitIndex - 1]

\* line 93
RightSubrangeFromSplit(splitIndex, right) == [left |-> splitIndex, right |-> right]

RightSubrange(splitIndex, right) == [left |-> splitIndex + 1, right |-> right]

NoCall == [kind |-> "none"]

\* ---------------------------------------------------------------- Init
\* main() after lines 103-116: n read, the buffer filled, convexHull empty
InitWith(buffers) ==
    /\ input \in buffers
    /\ n \in {k \in MinN..Size(input) : Size(input) = (IF k < 0 THEN 0 ELSE k)}
    /\ points = input
    /\ convexHull = <<>>
    /\ stack = <<>>
    /\ pc = "main"
    /\ output = <<>>
    /\ call = NoCall

Init == InitWith(Inputs)

\* quickHull branches on x-coordinates only (lines 66 and 76); y is read by
\* distance() alone, whose result is discarded.  Runs are followed to their
\* end from the inputs that differ in x.
FairInit == InitWith(AxisInputs)

\* line 117: main calls quickHull(points, 0, n - 1, convexHull)
MainCall ==
    /\ pc = "main"
    /\ stack' = <<[left |-> 0, right |-> n - 1]>>
    /\ pc' = "run"
    /\ UNCHANGED <<n, input, points, convexHull, output, call>>

\* lines 59-61: the pending call hits the base case and returns
QuickHullReturn ==
    /\ pc = "run"
    /\ stack # <<>>
    /\ BaseCase(points, Head(stack).left, Head(stack).right)
    /\ stack' = Tail(stack)
    /\ call' = [kind |-> "base", left |-> Head(stack).left, right |-> Head(stack).right]
    /\ UNCHANGED <<n, input, points, convexHull, pc, output>>

\* lines 63-93: the body of a non-base call; the nested calls are pushed
QuickHullBody ==
    /\ pc = "run"
    /\ stack # <<>>
    /\ LET left == Head(stack).left
           right == Head(stack).right
       IN /\ ~BaseCase(points, left, right)
          /\ LET referentialIndex == FindReferential(points, left, right)
                 p1 == Swap(points, referentialIndex, right)
                 part == Partition(p1, left, right)
                 splitIndex == part.splitIndex
                 p2 == Swap(part.points, right, splitIndex)
             IN /\ points' = p2
                /\ convexHull' = Append(convexHull, EmittedPoint(p2, splitIndex, right))
                /\ \E maxDistancePoint \in findMaxDistancePoint(p2, left, splitIndex) :
                      call' = [kind |-> "body", left |-> left, right |-> right,
                               entry |-> points,
                               referentialIndex |-> referentialIndex,
                               splitIndex |-> splitIndex,
                               reads |-> (left..right) \cup {referentialIndex, splitIndex}
                                          \cup findMaxReads(p2, left, splitIndex),
                               writes |-> {referentialIndex, right, splitIndex} \cup part.writes,
                               zeroSegment |-> distanceUndefined(p2[left], p2[splitIndex]),
                               maxDistancePoint |-> maxDistancePoint]
                /\ stack' = <<LeftSubrange(left, splitIndex), RightSubrange(splitIndex, right)>> \o Tail(stack)
    /\ UNCHANGED <<n, input, pc, output>>

\* lines 119-124: quickHull has returned to main, which prints the hull
MainPrint ==
    /\ pc = "run"
    /\ stack = <<>>
    /\ pc' = "done"
    /\ output' = convexHull
    /\ UNCHANGED <<n, input, points, convexHull, stack, call>>

Next == MainCall \/ QuickHullReturn \/ QuickHullBody \/ MainPrint

Spec == Init /\ [][Next]_vars

\* the program runs to completion on one thread: it never stops while a step remains
FairSpec == FairInit /\ [][Next]_vars /\ WF_vars(Next)

\* ------------------------------------------------------------ properties
Done == pc = "done"

HullSlots == {convexHull[k].slot : k \in 1..Len(convexHull)}

SameCoords(p, q) == p.x = q.x /\ p.y = q.y

Cross(a, b, c) == (b.x - a.x) * (c.y - a.y) - (b.y - a.y) * (c.x - a.x)

\* p lies strictly between a and b on a common line
StrictlyBetween(a, p, b) ==
    /\ Cross(a, b, p) = 0
    /\ (a.x - p.x) * (b.x - p.x) + (a.y - p.y) * (b.y - p.y) < 0

AllCollinear(buf) == \A i, j, k \in DOMAIN buf : Cross(buf[i], buf[j], buf[k]) = 0

\* p is an end of the set of collinear points buf
ExtremeOnLine(buf, p) == \A i, j \in DOMAIN buf : ~StrictlyBetween(buf[i], p, buf[j])

\* p lies in the closed triangle a b c (a segment or a point when degenerate)
InTriangle(p, a, b, c) ==
    IF Cross(a, b, c) = 0
    THEN \/ SameCoords(p, a) \/ SameCoords(p, b) \/ SameCoords(p, c)
         \/ StrictlyBetween(a, p, b) \/ StrictlyBetween(b, p, c) \/ StrictlyBetween(a, p, c)
    ELSE LET d1 == Cross(a, b, p)
             d2 == Cross(b, c, p)
             d3 == Cross(c, a, p)
         IN ~((d1 < 0 \/ d2 < 0 \/ d3 < 0) /\ (d1 > 0 \/ d2 > 0 \/ d3 > 0))

\* every point of buf is a vertex of the convex hull of buf
EveryPointIsHullVertex(buf) ==
    /\ Size(buf) >= 3
    /\ \A i \in DOMAIN buf : \A a, b, c \in (DOMAIN buf) \ {i} :
          ~InTriangle(buf[i], buf[a], buf[b], buf[c])

\* C1: with n <= 1 the hull stays empty throughout and the run completes
\* normally with an empty result.
EmptyHullForSmallN == n <= 1 => convexHull = <<>> /\ (Done => output = <<>>)

EmptyHullForSmallNWitness == n = 1 /\ Done /\ output = <<>> /\ call.kind = "base"

\* C2: when every input point is a hull vertex (a triangle, the unit
\* square), the result is a permutation of the whole input.
HullIsWholeInput ==
    (Done /\ EveryPointIsHullVertex(input)) =>
        (Len(output) = Size(input) /\ HullSlots = DOMAIN input)

\* C3: for the square with its centroid the result never contains the
\* interior point (0.5, 0.5), which is (1, 1) in half-units.
CentroidExcluded ==
    input = SquareWithCentroid =>
        \A k \in 1..Len(convexHull) : ~(convexHull[k].x = 1 /\ convexHull[k].y = 1)

\* C4: for collinear input the result has at most two points, and they
\* are ends of the line of points.
CollinearHullIsExtremes ==
    (Done /\ AllCollinear(input)) =>
        /\ Len(output) <= 2
        /\ \A k \in 1..Len(output) : ExtremeOnLine(input, output[k])

\* C5: the hull is always a sub-multiset of the input: each entry is the
\* input point of its slot, no slot occurs twice, and the hull is no longer
\* than the input.
HullIsSubMultiset ==
    /\ \A k \in 1..Len(convexHull) :
          /\ convexHull[k].slot \in DOMAIN input
          /\ convexHull[k] = input[convexHull[k].slot]
    /\ \A k, l \in 1..Len(convexHull) : convexHull[k].slot = convexHull[l].slot => k = l
    /\ Len(convexHull) <= Size(input)

HullIsSubMultisetWitness == Done /\ Len(convexHull) >= 2

\* C6: no call computes a distance against a zero-length segment with an
\* undefined outcome.
NoUndefinedDistance == call.kind = "body" => ~call.zeroSegment

\* C7: a call neither reads nor writes a buffer position outside its own
\* range [left, right].
CallConfinedToRange ==
    call.kind = "body" =>
        /\ call.reads \subseteq call.left..call.right
        /\ call.writes \subseteq call.left..call.right

\* C8: a non-base call appends the point that had the minimum x in
\* [left, right] at entry (lowest index among ties); after the partition it
\* is at splitIndex, everything before it in the range has strictly smaller
\* x, and everything after it has x not smaller.
FirstMinIndex(buf, left, right) ==
    CHOOSE i \in left..right :
        /\ \A j \in left..right : buf[i].x <= buf[j].x
        /\ \A j \in left..(i - 1) : buf[j].x > buf[i].x

PivotIsFirstMinimum ==
    call.kind = "body" =>
        LET s == call.splitIndex
        IN /\ s \in call.left..call.right
           /\ convexHull[Len(convexHull)] = call.entry[FirstMinIndex(call.entry, call.left, call.right)]
           /\ points[s] = convexHull[Len(convexHull)]
           /\ \A k \in call.left..(s - 1) : points[k].x < points[s].x
           /\ \A k \in (s + 1)..call.right : points[k].x >= points[s].x

\* the minimum is tied and not at the first position of the range
PivotIsFirstMinimumWitness ==
    /\ call.kind = "body"
    /\ call.referentialIndex > call.left
    /\ \E j \in (call.referentialIndex + 1)..call.right :
          call.entry[j].x = call.entry[call.referentialIndex].x

\* C9: every nested call gets a strictly smaller range than its caller,
\* and the run completes: the hull is handed to the driver.
Width(f) == f.right - f.left

Terminates ==
    /\ [][(pc = "run" /\ stack # <<>> /\ ~BaseCase(points, Head(stack).left, Head(stack).right)) =>
            /\ Len(stack') = Len(stack) + 1
            /\ Width(stack'[1]) < Width(stack[1])
            /\ Width(stack'[2]) < Width(stack[1])]_vars
    /\ <>(Done /\ output = convexHull)

TerminatesWitness == Done /\ Len(output) = MaxN - 1 /\ n = MaxN

====
